---- MODULE Spec2Model ----
(***************************************************************************)
(* A model of parsebuf's ParseCursor (src/src/lib.rs): a span start..end   *)
(* over an immutable UTF-8 buffer, the anchor resolver                     *)
(* find_directional_offset, the movement operations built on it, and the   *)
(* iterator returned by step.                                              *)
(*                                                                         *)
(* Text is a sequence of bytes.  "a" and "b" are one-byte characters; the  *)
(* two bytes "e1" "e2" are the lead and the continuation byte of one       *)
(* two-byte character, so that offsets inside a character exist.           *)
(***************************************************************************)
EXTENDS Integers, Sequences, FiniteSets, TLC

\* ------------------------------------------------------------------ bounds
\* Longest buffer, in characters.
MaxChars == 3

\* ------------------------------------------------------------- text values
\* The characters of the model alphabet, each as its byte sequence.
Chars == { <<"a">>, <<"b">>, <<"e1", "e2">> }

RECURSIVE StringsOf(_)
\* Every string of at most n characters (always valid UTF-8).
StringsOf(n) ==
    IF n = 0 THEN { <<>> }
    ELSE LET shorter == StringsOf(n - 1)
         IN  shorter \cup { s \o c : s \in shorter, c \in Chars }

\* The buffers a cursor is constructed over.
Buffers == StringsOf(MaxChars)

\* The patterns handed to the movement operations: non-empty strings, some
\* longer than one byte, one that overlaps itself, one multi-byte character.
Patterns == { <<"a">>, <<"b">>, <<"e1", "e2">>, <<"a", "a">>, <<"a", "b">> }

\* Option<T>: None is the empty sequence, Some(x) the one-element sequence.
None == <<>>
Some(x) == <<x>>
IsSome(o) == Len(o) = 1
Unwrap(o) == o[1]

\* haystack[from..to] with 0-based byte offsets, from <= to <= len.
Slice(s, from, to) == SubSeq(s, from + 1, to)

\* str::is_char_boundary: 0 and len are boundaries, an offset past the end
\* is not, and inside the string the byte at the offset must not be a
\* continuation byte.
is_char_boundary(s, index) ==
    IF index = 0 THEN TRUE
    ELSE IF index >= Len(s) THEN index = Len(s)
    ELSE s[index + 1] # "e2"

\* pattern occurs in haystack at byte offset i.
MatchesAt(haystack, pattern, i) ==
    /\ i >= 0
    /\ i + Len(pattern) <= Len(haystack)
    /\ Slice(haystack, i, i + Len(pattern)) = pattern

\* The byte offsets at which pattern occurs in haystack.
Occurrences(haystack, pattern) ==
    { i \in 0..Len(haystack) : MatchesAt(haystack, pattern, i) }

Min(S) == CHOOSE x \in S : \A y \in S : x <= y
Max(S) == CHOOSE x \in S : \A y \in S : x >= y

\* find that returns the offset of the start of the rightmost occurrence.
find_last(haystack, pattern) ==
    LET occ == Occurrences(haystack, pattern)
    IN  IF occ = {} THEN None ELSE Some(Max(occ))

\* find that returns the offset of the end of the leftmost occurrence.
find_match_end(haystack, pattern) ==
    LET occ == Occurrences(haystack, pattern)
    IN  IF occ = {} THEN None ELSE Some(Min(occ) + Len(pattern))

\* str::find: offset of the start of the leftmost occurrence.
find_(haystack, pattern) ==
    LET occ == Occurrences(haystack, pattern)
    IN  IF occ = {} THEN None ELSE Some(Min(occ))

\* rfind that searches from the front: the leftmost occurrence.
rfind_first(haystack, pattern) ==
    LET occ == Occurrences(haystack, pattern)
    IN  IF occ = {} THEN None ELSE Some(Min(occ))

\* str::rfind: offset of the start of the rightmost occurrence.
rfind_(haystack, pattern) ==
    LET occ == Occurrences(haystack, pattern)
    IN  IF occ = {} THEN None ELSE Some(Max(occ))

\* match_indices(..).next() that yields the rightmost occurrence.
match_indices_next_rightmost(haystack, pattern) ==
    LET occ == Occurrences(haystack, pattern)
    IN  IF occ = {} THEN None ELSE Some(<<Max(occ), pattern>>)

\* str::match_indices(..).next(): (offset, matched text) of the leftmost
\* occurrence.
match_indices_next(haystack, pattern) ==
    LET occ == Occurrences(haystack, pattern)
    IN  IF occ = {} THEN None ELSE Some(<<Min(occ), pattern>>)

\* rmatch_indices(..).next() that yields the leftmost occurrence.
rmatch_indices_next_leftmost(haystack, pattern) ==
    LET occ == Occurrences(haystack, pattern)
    IN  IF occ = {} THEN None ELSE Some(<<Min(occ), pattern>>)

\* str::rmatch_indices(..).next(): (offset, matched text) of the rightmost
\* occurrence.
rmatch_indices_next(haystack, pattern) ==
    LET occ == Occurrences(haystack, pattern)
    IN  IF occ = {} THEN None ELSE Some(<<Max(occ), pattern>>)

\* strip_prefix that strips a second leading occurrence when there is one.
strip_prefix_twice(haystack, pattern) ==
    IF MatchesAt(haystack, pattern, 0)
    THEN IF MatchesAt(haystack, pattern, Len(pattern))
         THEN Some(Slice(haystack, Len(pattern) + Len(pattern), Len(haystack)))
         ELSE Some(Slice(haystack, Len(pattern), Len(haystack)))
    ELSE None

\* str::strip_prefix: the rest after one leading occurrence, if there is one.
strip_prefix_(haystack, pattern) ==
    IF MatchesAt(haystack, pattern, 0)
    THEN Some(Slice(haystack, Len(pattern), Len(haystack)))
    ELSE None

\* strip_suffix followed by unwrap_or(haystack): an absent suffix strips nothing.
strip_suffix_or_whole(haystack, pattern) ==
    IF MatchesAt(haystack, pattern, Len(haystack) - Len(pattern))
    THEN Some(Slice(haystack, 0, Len(haystack) - Len(pattern)))
    ELSE Some(haystack)

\* str::strip_suffix: the rest before one trailing occurrence, if any.
strip_suffix_(haystack, pattern) ==
    IF MatchesAt(haystack, pattern, Len(haystack) - Len(pattern))
    THEN Some(Slice(haystack, 0, Len(haystack) - Len(pattern)))
    ELSE None

\* trim_start_matches that drops one leading occurrence only.
trim_start_matches_once(haystack, pattern) ==
    IF MatchesAt(haystack, pattern, 0)
    THEN Slice(haystack, Len(pattern), Len(haystack))
    ELSE haystack

RECURSIVE trim_start_matches_(_, _)
\* str::trim_start_matches: drop leading occurrences until none is left.
trim_start_matches_(haystack, pattern) ==
    IF MatchesAt(haystack, pattern, 0)
    THEN trim_start_matches_(Slice(haystack, Len(pattern), Len(haystack)), pattern)
    ELSE haystack

\* trim_end_matches that drops one trailing occurrence only.
trim_end_matches_once(haystack, pattern) ==
    IF MatchesAt(haystack, pattern, Len(haystack) - Len(pattern))
    THEN Slice(haystack, 0, Len(haystack) - Len(pattern))
    ELSE haystack

RECURSIVE trim_end_matches_(_, _)
\* str::trim_end_matches: drop trailing occurrences until none is left.
trim_end_matches_(haystack, pattern) ==
    IF MatchesAt(haystack, pattern, Len(haystack) - Len(pattern))
    THEN trim_end_matches_(Slice(haystack, 0, Len(haystack) - Len(pattern)), pattern)
    ELSE haystack

\* ---------------------------------------------------------- anchor resolver
PatternLoc == { "FirstExcluded", "FirstIncluded", "BeginningMany",
                "BeginningOnce", "LastExcluded", "EndOfLast",
                "StartOfSuffixMany" }

Direction == { "Forward", "Backward" }

InwardStrategy == { "CursorOnly", "WholeData" }

FallBack == { "ToTheEnd", "StayAtBeginning" }

\* find_directional_offset: the offset, counted from the near edge of the
\* scan, at which the boundary lands; None when the anchor does not resolve.
find_directional_offset(haystack, pattern, loc, direction) ==
    LET from_start_offset_to_end_offset(offset_from_beg) ==
            Len(haystack) - offset_from_beg
        from_end_offset_to_start_offset(offset_from_end) ==
            Len(haystack) - offset_from_end
        offset_of_sub_end(m) == m[1] + Len(m[2])
        \* Option::map with each of the three closures
        map_to_end_offset(o) ==
            IF IsSome(o) THEN Some(from_start_offset_to_end_offset(Unwrap(o)))
            ELSE None
        map_sub_end(o) ==
            IF IsSome(o) THEN Some(offset_of_sub_end(Unwrap(o))) ELSE None
    IN  CASE loc = "FirstExcluded" /\ direction = "Forward" ->
                find_(haystack, pattern)
          [] loc = "FirstExcluded" /\ direction = "Backward" ->
                map_to_end_offset(map_sub_end(rmatch_indices_next(haystack, pattern)))
          [] loc = "FirstIncluded" /\ direction = "Forward" ->
                map_sub_end(match_indices_next(haystack, pattern))
          [] loc = "FirstIncluded" /\ direction = "Backward" ->
                map_to_end_offset(rfind_(haystack, pattern))
          [] loc = "BeginningMany" /\ direction = "Forward" ->
                LET rem == trim_start_matches_(haystack, pattern)
                IN  Some(from_end_offset_to_start_offset(Len(rem)))
          [] loc = "BeginningMany" /\ direction = "Backward" ->
                LET rem == trim_end_matches_(haystack, pattern)
                IN  Some(from_start_offset_to_end_offset(Len(rem)))
          [] loc = "BeginningOnce" /\ direction = "Forward" ->
                LET rem == strip_prefix_(haystack, pattern)
                IN  IF IsSome(rem)
                    THEN Some(from_end_offset_to_start_offset(Len(Unwrap(rem))))
                    ELSE None
          [] loc = "BeginningOnce" /\ direction = "Backward" ->
                LET rem == strip_suffix_(haystack, pattern)
                IN  IF IsSome(rem)
                    THEN Some(from_start_offset_to_end_offset(Len(Unwrap(rem))))
                    ELSE None
          [] loc = "LastExcluded" /\ direction = "Forward" ->
                rfind_(haystack, pattern)
          [] loc = "LastExcluded" /\ direction = "Backward" ->
                map_to_end_offset(map_sub_end(rmatch_indices_next(haystack, pattern)))
          [] loc = "EndOfLast" /\ direction = "Forward" ->
                map_sub_end(rmatch_indices_next(haystack, pattern))
          [] loc = "EndOfLast" /\ direction = "Backward" ->
                map_to_end_offset(find_(haystack, pattern))
          [] loc = "StartOfSuffixMany" /\ direction = "Forward" ->
                Some(Len(trim_end_matches_(haystack, pattern)))
          [] loc = "StartOfSuffixMany" /\ direction = "Backward" ->
                Some(Len(trim_start_matches_(haystack, pattern)))

\* ------------------------------------------------------------------ cursor
\* ParseCursor { data, cursor_range: start..end }
ParseCursor(data_, start_, end_) ==
    [data |-> data_, start |-> start_, end |-> end_]

new_empty_start(data_) == ParseCursor(data_, 0, 0)

new_empty_end(data_) == ParseCursor(data_, Len(data_), Len(data_))

new_full(data_) == ParseCursor(data_, 0, Len(data_))

\* front_to_back with the assignment the wrong way round.
front_to_back_swapped(self) == [self EXCEPT !.start = self.end]

front_to_back(self) == [self EXCEPT !.end = self.start]

back_to_front(self) == [self EXCEPT !.start = self.end]

\* str::get(from..to).is_some(): the range is ordered, inside the string and
\* on character boundaries.  Indexing data[from..to] panics when it is not.
get_is_some(s, from, to) ==
    /\ 0 <= from
    /\ from <= to
    /\ to <= Len(s)
    /\ is_char_boundary(s, from)
    /\ is_char_boundary(s, to)

check_invariants(self) ==
    /\ self.start <= self.end
    /\ get_is_some(self.data, self.start, self.end)

\* The five views.  Each is a checked slice of data; the *_ok predicate says
\* whether the slice expression returns rather than panics.
cursor_ok(self) == get_is_some(self.data, self.start, self.end)
cursor(self) == Slice(self.data, self.start, self.end)

back_rem_ok(self) == get_is_some(self.data, 0, self.start)
back_rem(self) == Slice(self.data, 0, self.start)

front_rem_ok(self) == get_is_some(self.data, self.end, Len(self.data))
front_rem(self) == Slice(self.data, self.end, Len(self.data))

all_but_front_rem_ok(self) == get_is_some(self.data, 0, self.end)
all_but_front_rem(self) == Slice(self.data, 0, self.end)

all_but_back_rem_ok(self) == get_is_some(self.data, self.start, Len(self.data))
all_but_back_rem(self) == Slice(self.data, self.start, Len(self.data))

split(self) == << back_rem(self), cursor(self), front_rem(self) >>

\* extract that hands out a copy of the cursor instead of a cursor over the
\* span.
extract_clone(self) == << back_rem(self), self, front_rem(self) >>

\* extract: the text before the span, a cursor over the span alone that
\* covers all of it, and the text after the span.
extract(self) == << back_rem(self), new_full(cursor(self)), front_rem(self) >>

snap(self) == extract(self)[2]

\* What a call leaves behind: the cursor, how the call ended ("Ok",
\* "Failed", or "Panic" for an abort) and the offset it resolved (-1: none).
Outcome(self, res_, by_) == [cur |-> self, res |-> res_, by |-> by_]

\* move_front_forward that leaves the consumed span behind: the back is
\* brought up to where the front was.
move_front_forward_consuming(self, by) ==
    [self EXCEPT !.start = self.end, !.end = self.end + by]

move_front_forward(self, by) == [self EXCEPT !.end = self.end + by]

\* move_front_backward that does not drag the back along when it crosses it.
move_front_backward_no_drag(self, by, inward_strategy, dbg) ==
    IF ~cursor_ok(self) THEN Outcome(self, "Panic", by)
    ELSE IF Len(cursor(self)) >= by
    THEN Outcome([self EXCEPT !.end = self.end - by], "Ok", by)
    ELSE IF dbg /\ inward_strategy = "CursorOnly"
    THEN Outcome(self, "Panic", by)
    ELSE Outcome([self EXCEPT !.end = self.end - by], "Ok", by)

\* move_front_backward that stops at the back instead of crossing it.
move_front_backward_clamped(self, by, inward_strategy, dbg) ==
    IF ~cursor_ok(self) THEN Outcome(self, "Panic", by)
    ELSE IF Len(cursor(self)) >= by
    THEN Outcome([self EXCEPT !.end = self.end - by], "Ok", by)
    ELSE IF dbg /\ inward_strategy = "CursorOnly"
    THEN Outcome(self, "Panic", by)
    ELSE Outcome([self EXCEPT !.end = self.start], "Ok", by)

\* A subtraction below zero stands for the usize underflow.
move_front_backward(self, by, inward_strategy, dbg) ==
    IF ~cursor_ok(self) THEN Outcome(self, "Panic", by)
    ELSE IF Len(cursor(self)) >= by
    THEN Outcome([self EXCEPT !.end = self.end - by], "Ok", by)
    ELSE IF dbg /\ inward_strategy = "CursorOnly"
    THEN Outcome(self, "Panic", by)
    ELSE Outcome(back_to_front([self EXCEPT !.end = self.end - by]), "Ok", by)

move_back_backward(self, by) == [self EXCEPT !.start = self.start - by]

\* move_back_forward that does not drag the front along when it crosses it.
move_back_forward_no_drag(self, by, inward_strategy, dbg) ==
    IF ~cursor_ok(self) THEN Outcome(self, "Panic", by)
    ELSE IF Len(cursor(self)) >= by
    THEN Outcome([self EXCEPT !.start = self.start + by], "Ok", by)
    ELSE IF dbg /\ inward_strategy = "CursorOnly"
    THEN Outcome(self, "Panic", by)
    ELSE Outcome([self EXCEPT !.start = self.start + by], "Ok", by)

move_back_forward(self, by, inward_strategy, dbg) ==
    IF ~cursor_ok(self) THEN Outcome(self, "Panic", by)
    ELSE IF Len(cursor(self)) >= by
    THEN Outcome([self EXCEPT !.start = self.start + by], "Ok", by)
    ELSE IF dbg /\ inward_strategy = "CursorOnly"
    THEN Outcome(self, "Panic", by)
    ELSE Outcome(front_to_back([self EXCEPT !.start = self.start + by]), "Ok", by)

\* front_forward_by that checks the length of the view only.
front_forward_by_len_only(self, by) ==
    IF ~front_rem_ok(self) THEN Outcome(self, "Panic", by)
    ELSE IF by > Len(front_rem(self)) THEN Outcome(self, "Panic", by)
    ELSE Outcome(move_front_forward(self, by), "Ok", by)

front_forward_by(self, by) ==
    IF ~front_rem_ok(self) THEN Outcome(self, "Panic", by)
    ELSE IF ~is_char_boundary(front_rem(self), by) THEN Outcome(self, "Panic", by)
    ELSE Outcome(move_front_forward(self, by), "Ok", by)

front_forward(self, pattern, loc) ==
    IF ~front_rem_ok(self) THEN Outcome(self, "Panic", -1)
    ELSE LET by == find_directional_offset(front_rem(self), pattern, loc, "Forward")
         IN  IF by = None THEN Outcome(self, "Failed", -1)
             ELSE Outcome(move_front_forward(self, Unwrap(by)), "Ok", Unwrap(by))

front_forward_or(self, pattern, loc, fallback) ==
    LET r == front_forward(self, pattern, loc)
    IN  IF r.res = "Failed"
        THEN IF fallback = "ToTheEnd"
             THEN Outcome(move_front_forward(r.cur, Len(front_rem(r.cur))), "Ok", -1)
             ELSE Outcome(r.cur, "Ok", -1)
        ELSE r

back_backward(self, pattern, loc) ==
    IF ~back_rem_ok(self) THEN Outcome(self, "Panic", -1)
    ELSE LET by == find_directional_offset(back_rem(self), pattern, loc, "Backward")
         IN  IF by = None THEN Outcome(self, "Failed", -1)
             ELSE Outcome(move_back_backward(self, Unwrap(by)), "Ok", Unwrap(by))

front_backward_view_ok(self, inward_strategy) ==
    IF inward_strategy = "CursorOnly" THEN cursor_ok(self)
    ELSE all_but_front_rem_ok(self)

front_backward_view(self, inward_strategy) ==
    IF inward_strategy = "CursorOnly" THEN cursor(self)
    ELSE all_but_front_rem(self)

\* front_backward that empties the span when the pattern is not found.
front_backward_collapse_on_fail(self, pattern, loc, inward_strategy, dbg) ==
    IF ~front_backward_view_ok(self, inward_strategy) THEN Outcome(self, "Panic", -1)
    ELSE LET view == front_backward_view(self, inward_strategy)
             by == find_directional_offset(view, pattern, loc, "Backward")
         IN  IF by = None THEN Outcome(front_to_back(self), "Failed", -1)
             ELSE move_front_backward(self, Unwrap(by), inward_strategy, dbg)

front_backward(self, pattern, loc, inward_strategy, dbg) ==
    IF ~front_backward_view_ok(self, inward_strategy) THEN Outcome(self, "Panic", -1)
    ELSE LET view == front_backward_view(self, inward_strategy)
             by == find_directional_offset(view, pattern, loc, "Backward")
         IN  IF by = None THEN Outcome(self, "Failed", -1)
             ELSE move_front_backward(self, Unwrap(by), inward_strategy, dbg)

back_forward_view_ok(self, inward_strategy) ==
    IF inward_strategy = "CursorOnly" THEN cursor_ok(self)
    ELSE all_but_back_rem_ok(self)

\* back_forward_view that takes the text from start on under either strategy.
back_forward_view_whole_data(self, inward_strategy) == all_but_back_rem(self)

\* back_forward_view that takes the text up to end under WholeData.
back_forward_view_up_to_end(self, inward_strategy) ==
    IF inward_strategy = "CursorOnly" THEN cursor(self)
    ELSE all_but_front_rem(self)

back_forward_view(self, inward_strategy) ==
    IF inward_strategy = "CursorOnly" THEN cursor(self)
    ELSE all_but_back_rem(self)

back_forward(self, pattern, loc, inward_strategy, dbg) ==
    IF ~back_forward_view_ok(self, inward_strategy) THEN Outcome(self, "Panic", -1)
    ELSE LET view == back_forward_view(self, inward_strategy)
             by == find_directional_offset(view, pattern, loc, "Forward")
         IN  IF by = None THEN Outcome(self, "Failed", -1)
             ELSE move_back_forward(self, Unwrap(by), inward_strategy, dbg)

\* back_forward_by that reports a bad offset as Failed instead of asserting.
back_forward_by_failed(self, by, inward_strategy, dbg) ==
    IF ~back_forward_view_ok(self, inward_strategy) THEN Outcome(self, "Panic", by)
    ELSE IF ~is_char_boundary(back_forward_view(self, inward_strategy), by)
    THEN Outcome(self, "Failed", by)
    ELSE move_back_forward(self, by, inward_strategy, dbg)

back_forward_by(self, by, inward_strategy, dbg) ==
    IF ~back_forward_view_ok(self, inward_strategy) THEN Outcome(self, "Panic", by)
    ELSE IF ~is_char_boundary(back_forward_view(self, inward_strategy), by)
    THEN Outcome(self, "Panic", by)
    ELSE move_back_forward(self, by, inward_strategy, dbg)

\* back_forward_or whose ToTheEnd fallback moves by the width of the span.
back_forward_or_span_width(self, pattern, loc, inward_strategy, fallback, dbg) ==
    LET r == back_forward(self, pattern, loc, inward_strategy, dbg)
    IN  IF r.res = "Failed"
        THEN IF fallback = "ToTheEnd"
             THEN LET m == move_back_forward(r.cur, Len(cursor(r.cur)),
                                             inward_strategy, dbg)
                  IN  Outcome(m.cur, m.res, -1)
             ELSE Outcome(r.cur, "Ok", -1)
        ELSE r

back_forward_or(self, pattern, loc, inward_strategy, fallback, dbg) ==
    LET r == back_forward(self, pattern, loc, inward_strategy, dbg)
    IN  IF r.res = "Failed"
        THEN IF fallback = "ToTheEnd"
             THEN LET m == move_back_forward(r.cur,
                               Len(back_forward_view(r.cur, inward_strategy)),
                               inward_strategy, dbg)
                  IN  Outcome(m.cur, m.res, -1)
             ELSE Outcome(r.cur, "Ok", -1)
        ELSE r

\* ------------------------------------------------------------------- recipes
\* The closure handed to step is a chain of movement calls joined by `?`:
\*     |c| { c.first(..)?; c.second(..) }
\* A call is [op, pat, loc, strat]; strat is read by the inward moves only.
RecipeCall(op_, pat_, loc_, strat_) ==
    [op |-> op_, pat |-> pat_, loc |-> loc_, strat |-> strat_]

\* One-call recipes: any of the four movements, on the pattern "a".
SingleCalls ==
    { RecipeCall(o, <<"a">>, l, "WholeData") :
        o \in {"front_forward", "back_backward"}, l \in PatternLoc }
    \cup
    { RecipeCall(o, <<"a">>, l, st) :
        o \in {"front_backward", "back_forward"}, l \in PatternLoc,
        st \in InwardStrategy }

\* Two-call recipes: find an opening "a" (moving the back over the whole
\* data, or the front), then a closing "b" with front_forward.
OpenCalls ==
    { RecipeCall("back_forward", <<"a">>, l, "WholeData") : l \in PatternLoc }
    \cup { RecipeCall("front_forward", <<"a">>, l, "WholeData") : l \in PatternLoc }

CloseCalls ==
    { RecipeCall("front_forward", <<"b">>, l, "WholeData") : l \in PatternLoc }

Recipes ==
    { <<c>> : c \in SingleCalls }
    \cup { <<o, c>> : o \in OpenCalls, c \in CloseCalls }

\* One movement call of a recipe.
ApplyCall(self, c, dbg) ==
    CASE c.op = "front_forward"  -> front_forward(self, c.pat, c.loc)
      [] c.op = "back_backward"  -> back_backward(self, c.pat, c.loc)
      [] c.op = "front_backward" -> front_backward(self, c.pat, c.loc, c.strat, dbg)
      [] c.op = "back_forward"   -> back_forward(self, c.pat, c.loc, c.strat, dbg)

\* The `?` after the first call of a recipe: a failure (or an abort) of the
\* first call is the recipe's result and keeps what the call did; after a
\* success the second call, if there is one, runs on the moved cursor.
and_then(first, recipe, dbg) ==
    IF first.res = "Ok" /\ Len(recipe) > 1
    THEN ApplyCall(first.cur, recipe[2], dbg)
    ELSE first

\* f(&mut state): the one or two calls of the recipe, in order, on the same
\* cursor.
RunRecipe(self, recipe, dbg) ==
    and_then(ApplyCall(self, recipe[1], dbg), recipe, dbg)

\* A closure that ends the sequence instead of yielding an empty item.
yield_cursor_unless_empty(r) ==
    IF r.res = "Ok" /\ ~cursor_ok(r.cur) THEN Outcome(r.cur, "Panic", -1)
    ELSE IF r.res = "Ok" /\ cursor(r.cur) = << >> THEN Outcome(r.cur, "Failed", -1)
    ELSE r

\* Some(state.cursor()): slicing the span aborts when it is no valid range.
yield_cursor(r) ==
    IF r.res = "Ok" /\ ~cursor_ok(r.cur) THEN Outcome(r.cur, "Panic", -1)
    ELSE r

\* The closure without its back_to_front: a pull starts from the old span.
step_next_no_collapse(self, recipe, dbg) ==
    yield_cursor(RunRecipe(self, recipe, dbg))

\* The closure step gives to from_fn, run once: back_to_front, then the
\* recipe, then the span as the item if the recipe succeeded.
step_next(self, recipe, dbg) ==
    yield_cursor(RunRecipe(back_to_front(self), recipe, dbg))

\* ------------------------------------------------------------ state machine
VARIABLES
    data,              \* the buffer the cursor was constructed over
    start,             \* cursor_range.start
    end,               \* cursor_range.end
    debug_assertions,  \* the build: cfg(debug_assertions) on or off
    f,                 \* Some(recipe) once step has taken the cursor
    ended,             \* a pull of the step sequence has returned None
    call,              \* the call that has just returned, until the caller
                       \* takes its result
    parent             \* Some(cursor extract was called on) while the
                       \* cursor is a sub-cursor

vars == << data, start, end, debug_assertions, f, ended, call, parent >>

self == ParseCursor(data, start, end)

NoText == << >>

\* The record of a call: its name and arguments, the span before it, how it
\* ended, the offset it moved by, and the text it returned (if any).
Call(op_, pat_, loc_, strat_, fb_, o, text_) ==
    [op |-> op_, pat |-> pat_, loc |-> loc_, strat |-> strat_, fb |-> fb_,
     pstart |-> start, pend |-> end, res |-> o.res, by |-> o.by,
     text |-> text_]

NoCall ==
    [op |-> "none", pat |-> NoText, loc |-> "-", strat |-> "-", fb |-> "-",
     pstart |-> 0, pend |-> 0, res |-> "-", by |-> -1, text |-> NoText]

Idle == call.op = "none" /\ f = None

\* The cursor after the call o, and the record of the call.
Returns(o, c) ==
    /\ start' = o.cur.start
    /\ end' = o.cur.end
    /\ data' = o.cur.data
    /\ call' = c
    /\ UNCHANGED << debug_assertions, f, ended, parent >>

\* The state after one of the three constructors on a buffer of `buffers`.
InitOver(buffers) ==
    /\ data \in buffers
    /\ \E c \in { new_empty_start(data), new_empty_end(data), new_full(data) } :
          /\ start = c.start
          /\ end = c.end
    /\ debug_assertions \in BOOLEAN
    /\ f = None
    /\ ended = FALSE
    /\ call = NoCall
    /\ parent = None

Init == InitOver(Buffers)

FrontToBack ==
    /\ Idle
    /\ LET o == Outcome(front_to_back(self), "Ok", -1)
       IN  Returns(o, Call("front_to_back", NoText, "-", "-", "-", o, NoText))

BackToFront ==
    /\ Idle
    /\ LET o == Outcome(back_to_front(self), "Ok", -1)
       IN  Returns(o, Call("back_to_front", NoText, "-", "-", "-", o, NoText))

Split ==
    /\ Idle
    /\ LET o == Outcome(self, IF check_invariants(self) THEN "Ok" ELSE "Panic", -1)
       IN  Returns(o, Call("split", NoText, "-", "-", "-", o, split(self)))

FrontForwardBy ==
    /\ Idle
    /\ \E by \in 0..(Len(data) + 1) :
          LET o == front_forward_by(self, by)
          IN  Returns(o, Call("front_forward_by", NoText, "-", "-", "-", o, NoText))

FrontForward ==
    /\ Idle
    /\ \E pattern \in Patterns, loc \in PatternLoc :
          LET o == front_forward(self, pattern, loc)
          IN  Returns(o, Call("front_forward", pattern, loc, "-", "-", o, NoText))

FrontForwardOr ==
    /\ Idle
    /\ \E pattern \in Patterns, loc \in PatternLoc, fallback \in FallBack :
          LET o == front_forward_or(self, pattern, loc, fallback)
          IN  Returns(o, Call("front_forward_or", pattern, loc, "-", fallback, o, NoText))

BackBackward ==
    /\ Idle
    /\ \E pattern \in Patterns, loc \in PatternLoc :
          LET o == back_backward(self, pattern, loc)
          IN  Returns(o, Call("back_backward", pattern, loc, "-", "-", o, NoText))

FrontBackward ==
    /\ Idle
    /\ \E pattern \in Patterns, loc \in PatternLoc, st \in InwardStrategy :
          LET o == front_backward(self, pattern, loc, st, debug_assertions)
          IN  Returns(o, Call("front_backward", pattern, loc, st, "-", o, NoText))

BackForward ==
    /\ Idle
    /\ \E pattern \in Patterns, loc \in PatternLoc, st \in InwardStrategy :
          LET o == back_forward(self, pattern, loc, st, debug_assertions)
          IN  Returns(o, Call("back_forward", pattern, loc, st, "-", o, NoText))

BackForwardBy ==
    /\ Idle
    /\ \E by \in 0..(Len(data) + 1), st \in InwardStrategy :
          LET o == back_forward_by(self, by, st, debug_assertions)
          IN  Returns(o, Call("back_forward_by", NoText, "-", st, "-", o, NoText))

BackForwardOr ==
    /\ Idle
    /\ \E pattern \in Patterns, loc \in PatternLoc, st \in InwardStrategy,
          fallback \in FallBack :
          LET o == back_forward_or(self, pattern, loc, st, fallback, debug_assertions)
          IN  Returns(o, Call("back_forward_or", pattern, loc, st, fallback, o, NoText))

\* step(self, f): the cursor and the recipe move into the iterator.
Step ==
    /\ Idle
    /\ \E recipe \in Recipes : f' = Some(recipe)
    /\ UNCHANGED << data, start, end, debug_assertions, ended, call, parent >>

\* What a pull that ended as o leaves behind: the moved cursor, the item
\* (Some(span) after a success, None after a failure) and the ended flag.
Pulled(o) ==
    /\ start' = o.cur.start
    /\ end' = o.cur.end
    /\ call' = Call("next", NoText, "-", "-", "-", o,
                    IF o.res = "Ok" THEN Some(cursor(o.cur)) ELSE None)
    /\ ended' = (ended \/ o.res = "Failed")
    /\ UNCHANGED << data, debug_assertions, f, parent >>

\* One pull of the iterator.  from_fn calls the closure again on every pull,
\* also after it has returned None.
StepNext ==
    /\ f # None
    /\ call.op = "none"
    /\ Pulled(step_next(self, Unwrap(f), debug_assertions))

\* The caller takes the result of the call; an abort ends the program.
TakeResult ==
    /\ call.op # "none"
    /\ call.res # "Panic"
    /\ call' = NoCall
    /\ UNCHANGED << data, start, end, debug_assertions, f, ended, parent >>

Next ==
    \/ FrontToBack
    \/ BackToFront
    \/ Split
    \/ FrontForwardBy
    \/ FrontForward
    \/ FrontForwardOr
    \/ BackBackward
    \/ FrontBackward
    \/ BackForward
    \/ BackForwardBy
    \/ BackForwardOr
    \/ Step
    \/ StepNext
    \/ TakeResult

Spec == Init /\ [][Next]_vars

\* A program that constructs a cursor, calls step on it and consumes the
\* sequence (a for loop over the iterator).
NextPulling == Step \/ StepNext \/ TakeResult

\* A pull can run: StepNext is enabled.
CanPull == f # None /\ call.op = "none"

\* The consumer goes on taking what it gets and pulling again.  The second
\* condition is weak fairness of StepNext written out: StepNext is enabled
\* exactly when CanPull holds, and every pull ends CanPull.
SpecPulling ==
    /\ Init /\ [][NextPulling]_vars
    /\ WF_vars(TakeResult)
    /\ []<>(~CanPull)

\* extract: the caller goes on with the sub-cursor; the cursor it was called
\* on stays behind, untouched, with the texts before and after the span.
\* One level of extraction is followed.
Extract ==
    /\ Idle
    /\ parent = None
    /\ LET o == Outcome(snap(self),
                        IF check_invariants(self) THEN "Ok" ELSE "Panic", -1)
       IN  /\ start' = o.cur.start
           /\ end' = o.cur.end
           /\ data' = o.cur.data
           /\ call' = Call("extract", NoText, "-", "-", "-", o,
                           << extract(self)[1], extract(self)[3] >>)
    /\ parent' = Some(self)
    /\ UNCHANGED << debug_assertions, f, ended >>

\* Buffers one character shorter than in Spec: every sub-cursor is followed
\* through all operations again.
ExtractBuffers == StringsOf(MaxChars - 1)

InitExtract == InitOver(ExtractBuffers)

NextExtract == Next \/ Extract

\* The cursor with extract: a cursor, then the operations on its sub-cursor.
SpecExtract == InitExtract /\ [][NextExtract]_vars

\* ------------------------------------------------------------- properties
\* The four pattern movements that can return Failed.
Movements == { "front_forward", "back_backward", "front_backward", "back_forward" }

\* The anchors that search for an occurrence (the two *Many anchors trim).
SearchAnchors == { "FirstExcluded", "FirstIncluded", "BeginningOnce",
                   "LastExcluded", "EndOfLast" }

\* The text the call recorded in `call` searched, taken from the span it
\* started from: after (front_forward*), before (back_backward), and for the
\* inward moves the span or the text up to end / from start.
ViewOf(c) ==
    CASE c.op \in {"front_forward", "front_forward_or", "front_forward_by"} ->
            Slice(data, c.pend, Len(data))
      [] c.op = "back_backward" ->
            Slice(data, 0, c.pstart)
      [] c.op = "front_backward" ->
            IF c.strat = "CursorOnly" THEN Slice(data, c.pstart, c.pend)
            ELSE Slice(data, 0, c.pend)
      [] c.op \in {"back_forward", "back_forward_or", "back_forward_by"} ->
            IF c.strat = "CursorOnly" THEN Slice(data, c.pstart, c.pend)
            ELSE Slice(data, c.pstart, Len(data))

\* The direction in which the call recorded in `call` scans its view.
DirectionOf(c) ==
    IF c.op \in {"back_backward", "front_backward"} THEN "Backward" ELSE "Forward"

\* The span is where it was before the call.
SpanUnchanged == start = call.pstart /\ end = call.pend

\* C1: in every state reached by public operations,
\* 0 <= start <= end <= len(buffer) and both start and end are character
\* boundaries of the buffer.
C1_BoundaryInvariant ==
    /\ 0 <= start
    /\ start <= end
    /\ end <= Len(data)
    /\ (start < Len(data) => data[start + 1] # "e2")
    /\ (end < Len(data) => data[end + 1] # "e2")

\* A movement has returned with both boundaries strictly inside the buffer,
\* one of them right behind a two-byte character.
C1_Witness ==
    /\ call.op \in Movements
    /\ call.res = "Ok"
    /\ 0 < start /\ start < end /\ end < Len(data)
    /\ data[start] = "e2"
    /\ call.by > 0

\* C2: when one of the four pattern movements returns Failed, start and end
\* are what they were before the call.
C2_NoOpOnFailure ==
    (call.op \in Movements /\ call.res = "Failed") => SpanUnchanged

\* An inward move over a non-empty span inside the buffer has failed.
C2_Witness ==
    /\ call.op \in {"front_backward", "back_forward"}
    /\ call.res = "Failed"
    /\ 0 < call.pstart /\ call.pstart < call.pend /\ call.pend < Len(data)

\* C3: once a pull of the step sequence has returned None, no later pull
\* yields an item.
C3_NoResumption ==
    ended => ~(call.op = "next" /\ call.res = "Ok")

\* C4 as claimed: front_to_back leaves an empty span at the previous end,
\* back_to_front an empty span at the previous start.
C4_AsClaimed ==
    /\ call.op = "front_to_back" => (start = call.pend /\ end = call.pend)
    /\ call.op = "back_to_front" => (start = call.pstart /\ end = call.pstart)

\* C4 amended: front_to_back leaves an empty span at the previous start
\* boundary (the front goes to the back), back_to_front an empty span at the
\* previous end boundary.
C4_Collapse ==
    /\ call.op = "front_to_back" => (start = call.pstart /\ end = call.pstart)
    /\ call.op = "back_to_front" => (start = call.pend /\ end = call.pend)

\* A non-empty span has been collapsed.
C4_Witness ==
    /\ call.op \in {"front_to_back", "back_to_front"}
    /\ call.pstart < call.pend

\* Every occurrence of the pattern of the recorded call lies entirely after
\* the end the call started from, and there is one.
OnlyAfterEnd ==
    /\ Occurrences(data, call.pat) # {}
    /\ \A i \in Occurrences(data, call.pat) : i >= call.pend

\* C5 as claimed: back_forward under WholeData does not find an occurrence
\* lying entirely after end; it fails when that is the only occurrence.
C5_AsClaimed ==
    ( /\ call.op = "back_forward"
      /\ call.strat = "WholeData"
      /\ call.loc \in SearchAnchors
      /\ OnlyAfterEnd )
    => call.res = "Failed"

\* C5 amended: back_forward under WholeData searches the region from start
\* to the end of the buffer: with a searching anchor other than
\* BeginningOnce it succeeds exactly when the pattern occurs at or after
\* start, wherever end is, and with FirstExcluded start lands on the first
\* such occurrence.
C5_WholeDataView ==
    ( /\ call.op = "back_forward"
      /\ call.strat = "WholeData"
      /\ call.loc \in SearchAnchors \ {"BeginningOnce"} )
    => LET occ == { i \in Occurrences(data, call.pat) : i >= call.pstart }
       IN  /\ (call.res = "Ok") = (occ # {})
           /\ (call.res = "Ok" /\ call.loc = "FirstExcluded") => start = Min(occ)

\* back_forward under WholeData has found an occurrence that lies entirely
\* after a non-empty span.
C5_Witness ==
    /\ call.op = "back_forward"
    /\ call.strat = "WholeData"
    /\ call.loc = "FirstExcluded"
    /\ call.res = "Ok"
    /\ call.pstart < call.pend
    /\ OnlyAfterEnd
    /\ start > call.pend

\* C6: in every state before + span + after (the three parts split returns)
\* concatenate to the buffer, and no step changes the buffer.
C6_SplitCompleteness ==
    /\ [](split(self)[1] \o split(self)[2] \o split(self)[3] = data)
    /\ [][data' = data]_vars

\* split has returned three non-empty parts after a movement shrank the span.
C6_Witness ==
    /\ call.op = "split"
    /\ call.res = "Ok"
    /\ call.text[1] # NoText /\ call.text[2] # NoText /\ call.text[3] # NoText
    /\ call.text[1] \o call.text[2] \o call.text[3] = data

\* C7: under WholeData, an inward move whose resolved offset exceeds the span
\* width succeeds and leaves an empty span at the crossing point (old end -
\* offset for front_backward, old start + offset for back_forward); when the
\* offset is at most the span width only the moved boundary changes.
C7_WholeDataCrossing ==
    ( /\ call.op \in {"front_backward", "back_forward"}
      /\ call.strat = "WholeData"
      /\ call.res # "Failed" )
    => LET width == call.pend - call.pstart
           offset == Unwrap(find_directional_offset(ViewOf(call), call.pat,
                                                    call.loc, DirectionOf(call)))
       IN  /\ call.res = "Ok"
           /\ call.op = "front_backward" =>
                 IF offset > width
                 THEN start = call.pend - offset /\ end = call.pend - offset
                 ELSE start = call.pstart /\ end = call.pend - offset
           /\ call.op = "back_forward" =>
                 IF offset > width
                 THEN start = call.pstart + offset /\ end = call.pstart + offset
                 ELSE start = call.pstart + offset /\ end = call.pend

\* front_backward under WholeData has crossed the back of a non-empty span.
C7_Witness ==
    /\ call.op = "front_backward"
    /\ call.strat = "WholeData"
    /\ call.res = "Ok"
    /\ call.pstart < call.pend
    /\ call.by > call.pend - call.pstart
    /\ end < call.pstart

\* C8 as claimed: for every anchor kind, a movement whose pattern does not
\* occur in the searched view returns Failed and leaves the span alone.
C8_AsClaimed ==
    ( /\ call.op \in Movements
      /\ Occurrences(ViewOf(call), call.pat) = {} )
    => (call.res = "Failed" /\ SpanUnchanged)

\* C8 amended: for the five searching anchors (FirstExcluded, FirstIncluded,
\* BeginningOnce, LastExcluded, EndOfLast) and both directions, a movement
\* whose pattern does not occur in the searched view returns Failed and
\* leaves the span alone.  BeginningMany and StartOfSuffixMany resolve
\* anyway, to offset 0 and to the length of the view.
C8_NotFound ==
    ( /\ call.op \in Movements
      /\ Occurrences(ViewOf(call), call.pat) = {} )
    => /\ call.loc \in SearchAnchors => (call.res = "Failed" /\ SpanUnchanged)
       /\ call.loc = "BeginningMany" => (call.res = "Ok" /\ call.by = 0)
       /\ call.loc = "StartOfSuffixMany" =>
             (call.res = "Ok" /\ call.by = Len(ViewOf(call)))

\* A backward movement has failed on a non-empty view without the pattern.
C8_Witness ==
    /\ call.op \in {"back_backward", "front_backward"}
    /\ call.loc \in SearchAnchors
    /\ ViewOf(call) # NoText
    /\ Occurrences(ViewOf(call), call.pat) = {}
    /\ call.res = "Failed"

\* C9: the _or variants do what front_forward / back_forward do when the
\* pattern resolves; when it does not, StayAtBeginning leaves the span alone
\* and ToTheEnd consumes the searched view: front_forward_or leaves
\* end = len(buffer) and start alone, back_forward_or leaves an empty span at
\* the end of the searched view (old end under CursorOnly, len(buffer) under
\* WholeData).
C9_Fallback ==
    call.op \in {"front_forward_or", "back_forward_or"} =>
        LET pre == ParseCursor(data, call.pstart, call.pend)
            plain == IF call.op = "front_forward_or"
                     THEN front_forward(pre, call.pat, call.loc)
                     ELSE back_forward(pre, call.pat, call.loc, call.strat,
                                       debug_assertions)
            by == find_directional_offset(ViewOf(call), call.pat, call.loc, "Forward")
        IN  /\ call.res = "Ok"
            /\ by # None => (start = plain.cur.start /\ end = plain.cur.end
                             /\ plain.res = "Ok")
            /\ (by = None /\ call.fb = "StayAtBeginning") => SpanUnchanged
            /\ (by = None /\ call.fb = "ToTheEnd" /\ call.op = "front_forward_or") =>
                  (start = call.pstart /\ end = Len(data))
            /\ (by = None /\ call.fb = "ToTheEnd" /\ call.op = "back_forward_or") =>
                  IF call.strat = "CursorOnly"
                  THEN start = call.pend /\ end = call.pend
                  ELSE start = Len(data) /\ end = Len(data)

\* back_forward_or fell back to the end of the whole data from a non-empty
\* span that did not reach it.
C9_Witness ==
    /\ call.op = "back_forward_or"
    /\ call.strat = "WholeData"
    /\ call.fb = "ToTheEnd"
    /\ find_directional_offset(ViewOf(call), call.pat, call.loc, "Forward") = None
    /\ call.pstart < call.pend
    /\ call.pend < Len(data)
    /\ start = Len(data)

\* by is a character boundary of the text s.
OnBoundary(s, by) ==
    /\ by <= Len(s)
    /\ (by < Len(s) => s[by + 1] # "e2")

\* C10: front_forward_by and back_forward_by abort without moving a boundary
\* when by is not a character boundary of the view they address (also when
\* it is past its end); otherwise they move the boundary by exactly by.
C10_FixedOffset ==
    /\ call.op = "front_forward_by" =>
          IF OnBoundary(ViewOf(call), call.by)
          THEN call.res = "Ok" /\ start = call.pstart /\ end = call.pend + call.by
          ELSE call.res = "Panic" /\ SpanUnchanged
    /\ call.op = "back_forward_by" =>
          IF OnBoundary(ViewOf(call), call.by)
          THEN call.res = "Ok" /\ start = call.pstart + call.by
          ELSE call.res = "Panic" /\ SpanUnchanged

\* A fixed-offset move was asked to stop inside a two-byte character.
C10_Witness ==
    /\ call.op \in {"front_forward_by", "back_forward_by"}
    /\ call.by < Len(ViewOf(call))
    /\ ViewOf(call)[call.by + 1] = "e2"
    /\ call.res = "Panic"


\* The two fixed-offset moves.
FixedMoves == { "front_forward_by", "back_forward_by" }

\* C11 as claimed: a fixed-offset move whose offset is no character boundary
\* of its view returns the typed Failed outcome and leaves the span alone.
C11_AsClaimed ==
    (call.op \in FixedMoves /\ ~OnBoundary(ViewOf(call), call.by))
    => (call.res = "Failed" /\ SpanUnchanged)

\* C11 amended: a fixed-offset move never returns Failed (it has no Result);
\* an offset that is no character boundary of its view makes it abort on
\* its assertion, with the span left alone.
C11_AbortNotFailed ==
    call.op \in FixedMoves =>
        /\ call.res # "Failed"
        /\ ~OnBoundary(ViewOf(call), call.by) => (call.res = "Panic" /\ SpanUnchanged)

\* back_forward_by over the whole data was asked for an offset past the end
\* of its view, from a non-empty span.
C11_Witness ==
    /\ call.op = "back_forward_by"
    /\ call.strat = "WholeData"
    /\ call.by > Len(ViewOf(call))
    /\ call.pstart < call.pend
    /\ call.res = "Panic"


\* The recipe of the example: back_forward(open, FirstIncluded, WholeData)?
\* then front_forward(close, FirstExcluded).
OpenCloseRecipe(open, close) ==
    << RecipeCall("back_forward", open, "FirstIncluded", "WholeData"),
       RecipeCall("front_forward", close, "FirstExcluded", "WholeData") >>

RECURSIVE StepItems(_, _, _, _)
\* What the first n pulls of cur.step(recipe) return: Some(item) or None each.
StepItems(cur, recipe, dbg, n) ==
    IF n = 0 THEN << >>
    ELSE LET o == step_next(cur, recipe, dbg)
         IN  << IF o.res = "Ok" THEN Some(cursor(o.cur)) ELSE None >>
             \o StepItems(o.cur, recipe, dbg, n - 1)

\* "a (b) c (d)"
ParensText == << "a", " ", "(", "b", ")", " ", "c", " ", "(", "d", ")" >>

\* The first three pulls of the example recipe on "a (b) c (d)", from an
\* empty cursor at its start, in either build.
ParensPulls ==
    [ dbg \in BOOLEAN |->
        StepItems(new_empty_start(ParensText),
                  OpenCloseRecipe(<<"(">>, <<")">>), dbg, 3) ]

\* C12: with the recipe back_forward(open, FirstIncluded, WholeData) then
\* front_forward(close, FirstExcluded), a pull that starts with the front at
\* p (0 at first, then the end of the item before) yields the text between
\* the first open at or after p and the first close after that open, and
\* returns None when there is no such open or no close after it; from an
\* empty cursor at the start of "a (b) c (d)" the pulls give "b", "d", None.
C12_OpenClose ==
    /\ (call.op = "next" /\ f = Some(OpenCloseRecipe(<<"a">>, <<"b">>))) =>
          LET opens == { i \in Occurrences(data, <<"a">>) : i >= call.pend }
              from == Min(opens) + 1
              closes == { j \in Occurrences(data, <<"b">>) : j >= from }
          IN  IF opens = {} \/ closes = {}
              THEN call.res = "Failed" /\ call.text = None
              ELSE /\ call.res = "Ok"
                   /\ call.text = Some(Slice(data, from, Min(closes)))
                   /\ start = from
                   /\ end = Min(closes)
    /\ \A dbg \in BOOLEAN : ParensPulls[dbg] = << Some(<<"b">>), Some(<<"d">>), None >>

\* The first pull from an empty cursor at the start has yielded a non-empty
\* item.
C12_Witness ==
    /\ call.op = "next"
    /\ f = Some(OpenCloseRecipe(<<"a">>, <<"b">>))
    /\ call.pstart = 0 /\ call.pend = 0
    /\ call.res = "Ok"
    /\ end > start


RECURSIVE Reverse(_)
\* The text with its characters in the opposite order (the two bytes of a
\* two-byte character stay in order).
Reverse(s) ==
    IF s = << >> THEN << >>
    ELSE IF s[1] = "e1" THEN Reverse(SubSeq(s, 3, Len(s))) \o << "e1", "e2" >>
    ELSE Reverse(Tail(s)) \o << s[1] >>

Opposite(direction) == IF direction = "Forward" THEN "Backward" ELSE "Forward"

\* What the resolver returned to the call recorded in `call`.
Resolved(c) == IF c.res = "Ok" THEN Some(c.by) ELSE None

\* The resolver on the mirror image of the recorded call: reversed view,
\* reversed pattern, same anchor, opposite direction.
Mirrored(c) ==
    find_directional_offset(Reverse(ViewOf(c)), Reverse(c.pat), c.loc,
                            Opposite(DirectionOf(c)))

\* C13: when the pattern occurs exactly once in the view, FirstExcluded
\* resolves to the same offset on the view in one direction as on the
\* reversed view with the reversed pattern in the other direction.
C13_FirstExcludedMirror ==
    ( /\ call.op \in Movements
      /\ call.loc = "FirstExcluded"
      /\ Cardinality(Occurrences(ViewOf(call), call.pat)) = 1 )
    => (call.res = "Ok" /\ Mirrored(call) = Some(call.by))

\* front_forward has resolved FirstExcluded on a pattern that is not its own
\* reverse, occurring once, not at the near edge.
C13_Witness ==
    /\ call.op = "front_forward"
    /\ call.loc = "FirstExcluded"
    /\ call.pat = << "a", "b" >>
    /\ Cardinality(Occurrences(ViewOf(call), call.pat)) = 1
    /\ call.res = "Ok"
    /\ call.by > 0

\* C14 as claimed: for every anchor kind the resolver gives the same result
\* on the mirror image of a call as on the call.
C14_AsClaimed ==
    call.op \in Movements => Mirrored(call) = Resolved(call)

\* C14 amended: the resolver is direction-symmetric for the six anchor kinds
\* other than LastExcluded; for LastExcluded the two directions agree
\* exactly when the pattern occurs at most once in the haystack, because
\* LastExcluded-Backward stops at the match nearest to the scanned edge
\* where LastExcluded-Forward stops at the farthest one.
C14_Symmetry ==
    call.op \in Movements =>
        IF call.loc = "LastExcluded"
        THEN (Mirrored(call) = Resolved(call))
               = (Cardinality(Occurrences(ViewOf(call), call.pat)) <= 1)
        ELSE Mirrored(call) = Resolved(call)

\* A backward movement has resolved an including anchor on a view that holds
\* the pattern twice.
C14_Witness ==
    /\ call.op \in {"back_backward", "front_backward"}
    /\ call.loc \in {"FirstIncluded", "EndOfLast"}
    /\ Cardinality(Occurrences(ViewOf(call), call.pat)) = 2
    /\ call.res = "Ok"
    /\ Mirrored(call) = Some(call.by)


\* The call recorded in `call`, made once more on the cursor as it is now.
Again == ApplyCall(self, call, debug_assertions)

\* C15: right after a BeginningMany movement (front_forward, back_backward,
\* or front_backward / back_forward under either strategy), the same call
\* made again resolves to offset 0 and leaves start and end where the first
\* call put them.
C15_TrimIdempotence ==
    (call.op \in Movements /\ call.loc = "BeginningMany") =>
        /\ call.res = "Ok"
        /\ Again.res = "Ok"
        /\ Again.by = 0
        /\ Again.cur.start = start
        /\ Again.cur.end = end

\* A BeginningMany movement has trimmed more than one repeat of its pattern.
C15_Witness ==
    /\ call.op \in Movements
    /\ call.loc = "BeginningMany"
    /\ call.by > Len(call.pat)
    /\ call.res = "Ok"


\* The buffer of the cursor extract was called on, and its span.
ParentSpan == Slice(Unwrap(parent).data, Unwrap(parent).start, Unwrap(parent).end)

\* C16: extract returns the text before the span, a sub-cursor whose buffer
\* is exactly the span and whose span covers all of it (start 0, end = span
\* length, nothing before or after), and the text after the span; whatever
\* is done to the sub-cursor, the cursor it came from keeps its start and
\* end, and no view of the sub-cursor reaches outside the span.
C16_Extract ==
    /\ [] ( parent # None =>
              LET p == Unwrap(parent)
              IN  /\ data = ParentSpan
                  /\ cursor(self) = Slice(p.data, p.start + start, p.start + end)
                  /\ all_but_back_rem(self) = Slice(p.data, p.start + start, p.end)
                  /\ all_but_front_rem(self) = Slice(p.data, p.start, p.start + end)
                  /\ call.op = "extract" =>
                        /\ start = 0
                        /\ end = Len(ParentSpan)
                        /\ back_rem(self) = NoText
                        /\ front_rem(self) = NoText
                        /\ call.text = << Slice(p.data, 0, p.start),
                                          Slice(p.data, p.end, Len(p.data)) >>
                        /\ call.pstart = p.start /\ call.pend = p.end )
    /\ [][parent # None => parent' = parent]_vars

\* On a sub-cursor, a search over the whole data has failed on a pattern that
\* the text after the span of the cursor it came from begins with.
C16_Witness ==
    /\ parent # None
    /\ call.op \in {"back_forward", "front_forward"}
    /\ call.loc = "FirstExcluded"
    /\ call.res = "Failed"
    /\ MatchesAt(Unwrap(parent).data, call.pat, Unwrap(parent).end)
    /\ ParentSpan # NoText


\* "key1=value1;key2=value2"
KeyValueText ==
    << "k", "e", "y", "1", "=", "v", "a", "l", "u", "e", "1", ";",
       "k", "e", "y", "2", "=", "v", "a", "l", "u", "e", "2" >>

\* From an empty cursor at the start of "key1=value1;key2=value2":
\* front_forward("=", FirstExcluded), back_to_front, front_forward("=",
\* BeginningOnce), back_to_front, front_forward(";", FirstExcluded); the
\* results of the three searches and the spans after the first and the last.
KeyValueSpans ==
    LET key   == front_forward(new_empty_start(KeyValueText), <<"=">>, "FirstExcluded")
        skip  == front_forward(back_to_front(key.cur), <<"=">>, "BeginningOnce")
        value == front_forward(back_to_front(skip.cur), <<";">>, "FirstExcluded")
    IN  << key.res, cursor(key.cur), skip.res, value.res, cursor(value.cur) >>

\* C17: after a successful front_forward(p, FirstExcluded) the back has not
\* moved, the text the front moved over holds no occurrence of p and the
\* text after the span begins with p; on "key1=value1;key2=value2",
\* advancing until "=", collapsing, skipping "=" and advancing until ";"
\* holds the spans "key1" and then "value1".
C17_AdvanceUntil ==
    /\ ( call.op = "front_forward" /\ call.loc = "FirstExcluded" /\ call.res = "Ok" =>
            /\ start = call.pstart
            /\ end = call.pend + call.by
            /\ Occurrences(Slice(data, call.pend, end), call.pat) = {}
            /\ MatchesAt(data, call.pat, end) )
    /\ KeyValueSpans = << "Ok", << "k", "e", "y", "1" >>, "Ok",
                          "Ok", << "v", "a", "l", "u", "e", "1" >> >>

\* front_forward(p, FirstExcluded) has moved the front over some text up to
\* the first of several occurrences of p.
C17_Witness ==
    /\ call.op = "front_forward"
    /\ call.loc = "FirstExcluded"
    /\ call.res = "Ok"
    /\ call.by > 0
    /\ Cardinality(Occurrences(ViewOf(call), call.pat)) > 1


\* The pattern of the call recorded in `call` lies at the edge of its view
\* where its scan begins: a prefix going forward, a suffix going backward.
AtNearEdge(c) ==
    IF DirectionOf(c) = "Forward"
    THEN MatchesAt(ViewOf(c), c.pat, 0)
    ELSE MatchesAt(ViewOf(c), c.pat, Len(ViewOf(c)) - Len(c.pat))

\* find_directional_offset with BeginningOnce on "abcdef", "abcabc" and "":
\* Forward for "abc" and "xyz", Backward for "def" and "abc".
BeginningOnceOffsets ==
    LET abcdef == << "a", "b", "c", "d", "e", "f" >>
        abcabc == << "a", "b", "c", "a", "b", "c" >>
        abc == << "a", "b", "c" >>
    IN  << find_directional_offset(abcdef, abc, "BeginningOnce", "Forward"),
           find_directional_offset(abcdef, << "x", "y", "z" >>, "BeginningOnce", "Forward"),
           find_directional_offset(abcdef, << "d", "e", "f" >>, "BeginningOnce", "Backward"),
           find_directional_offset(abcdef, abc, "BeginningOnce", "Backward"),
           find_directional_offset(abcabc, abc, "BeginningOnce", "Forward"),
           find_directional_offset(abcabc, abc, "BeginningOnce", "Backward"),
           find_directional_offset(NoText, abc, "BeginningOnce", "Forward"),
           find_directional_offset(NoText, abc, "BeginningOnce", "Backward") >>

FromEndToLastMatchEnd(haystack, pattern) ==
    LET occ == Occurrences(haystack, pattern)
    IN  IF occ = {} THEN None
        ELSE Some(Len(haystack) - (Max(occ) + Len(pattern)))

\* The offset of the start of the rightmost occurrence of pattern, if any.
StartOfLastMatch(haystack, pattern) ==
    LET occ == Occurrences(haystack, pattern)
    IN  IF occ = {} THEN None ELSE Some(Max(occ))

\* C19: on every text and pattern a backward movement with LastExcluded
\* resolves to what FirstExcluded resolves to going backward, the distance
\* from the end of the text to the end of the rightmost occurrence (or
\* nothing when the pattern does not occur), and a forward movement with
\* LastExcluded resolves to the offset of the start of the rightmost
\* occurrence.
C19_LastExcluded ==
    call.op \in Movements /\ call.res # "Panic" =>
        /\ ( call.loc = "LastExcluded" /\ DirectionOf(call) = "Backward" =>
                /\ Resolved(call) = find_directional_offset(
                        ViewOf(call), call.pat, "FirstExcluded", "Backward")
                /\ Resolved(call) = FromEndToLastMatchEnd(ViewOf(call), call.pat) )
        /\ ( call.loc = "FirstExcluded" /\ DirectionOf(call) = "Backward" =>
                Resolved(call) = FromEndToLastMatchEnd(ViewOf(call), call.pat) )
        /\ ( call.loc = "LastExcluded" /\ DirectionOf(call) = "Forward" =>
                Resolved(call) = StartOfLastMatch(ViewOf(call), call.pat) )

\* A backward LastExcluded movement has resolved on a text in which the
\* pattern occurs more than once and does not end the text.
C19_Witness ==
    /\ call.op \in Movements
    /\ call.loc = "LastExcluded"
    /\ DirectionOf(call) = "Backward"
    /\ call.res = "Ok"
    /\ call.by > 0
    /\ Cardinality(Occurrences(ViewOf(call), call.pat)) > 1


\* The two anchors that trim repeats instead of searching.
ManyAnchors == { "BeginningMany", "StartOfSuffixMany" }

\* The edge of its view that the call recorded in `call` trims: the start
\* for BeginningMany going forward and StartOfSuffixMany going backward
\* (trim_start_matches), the end for the other two (trim_end_matches).
TrimsStart(c) == (c.loc = "BeginningMany") = (DirectionOf(c) = "Forward")

\* The pattern lies at the edge of the view that the call trims.
RepeatAtTrimmedEdge(c) ==
    IF TrimsStart(c)
    THEN MatchesAt(ViewOf(c), c.pat, 0)
    ELSE MatchesAt(ViewOf(c), c.pat, Len(ViewOf(c)) - Len(c.pat))

RECURSIVE OnlyRepeats(_, _)
\* haystack is pattern written zero or more times and nothing else.
OnlyRepeats(haystack, pattern) ==
    \/ haystack = NoText
    \/ /\ MatchesAt(haystack, pattern, 0)
       /\ OnlyRepeats(Slice(haystack, Len(pattern), Len(haystack)), pattern)

\* find_directional_offset on the empty text, for both trimming anchors in
\* both directions.
EmptyHaystackOffsets ==
    { find_directional_offset(NoText, <<"a">>, loc, direction) :
        loc \in ManyAnchors, direction \in Direction }

\* C20: a movement with BeginningMany or StartOfSuffixMany never fails to
\* find, in either direction: with no repeat to trim (the empty text
\* included) BeginningMany resolves to 0 and StartOfSuffixMany to the length
\* of the text searched, and on a text made of repeats only they resolve to
\* its length and to 0.
C20_ManyNeverFails ==
    /\ ( call.op \in Movements /\ call.loc \in ManyAnchors =>
            /\ call.res # "Failed"
            /\ call.res = "Ok" /\ ~RepeatAtTrimmedEdge(call) =>
                  call.by = IF call.loc = "BeginningMany" THEN 0
                            ELSE Len(ViewOf(call))
            /\ call.res = "Ok" /\ OnlyRepeats(ViewOf(call), call.pat) =>
                  call.by = IF call.loc = "BeginningMany" THEN Len(ViewOf(call))
                            ELSE 0 )
    /\ EmptyHaystackOffsets = { Some(0) }

\* A StartOfSuffixMany movement has resolved to 0 on a text that is the
\* pattern written more than once.
C20_Witness ==
    /\ call.op \in Movements
    /\ call.loc = "StartOfSuffixMany"
    /\ call.res = "Ok"
    /\ call.by = 0
    /\ OnlyRepeats(ViewOf(call), call.pat)
    /\ Len(ViewOf(call)) > Len(call.pat)


\* The assertions of test_find_directional_offset_beginning_once_backward:
\* ("abcdef", "def") -> Some(3), ("hello world", "world") -> Some(6),
\* ("hello world", "hello") -> None, ("test", "test") -> Some(4),
\* ("abcabc", "abc") -> Some(3), ("", "x") -> None.
BeginningOnceBackwardTest ==
    { [haystack |-> << "a", "b", "c", "d", "e", "f" >>,
       pattern |-> << "d", "e", "f" >>, expected |-> Some(3)],
      [haystack |-> << "h", "e", "l", "l", "o", " ", "w", "o", "r", "l", "d" >>,
       pattern |-> << "w", "o", "r", "l", "d" >>, expected |-> Some(6)],
      [haystack |-> << "h", "e", "l", "l", "o", " ", "w", "o", "r", "l", "d" >>,
       pattern |-> << "h", "e", "l", "l", "o" >>, expected |-> None],
      [haystack |-> << "t", "e", "s", "t" >>,
       pattern |-> << "t", "e", "s", "t" >>, expected |-> Some(4)],
      [haystack |-> << "a", "b", "c", "a", "b", "c" >>,
       pattern |-> << "a", "b", "c" >>, expected |-> Some(3)],
      [haystack |-> NoText,
       pattern |-> << "x" >>, expected |-> None] }

\* The assertions of the test that the resolver does not meet.
FailingAssertions ==
    { t \in BeginningOnceBackwardTest :
        find_directional_offset(t.haystack, t.pattern, "BeginningOnce", "Backward")
            # t.expected }

\* C21: every value the BeginningOnce-Backward test expects is what
\* find_directional_offset returns, "hello world" with "world" resolving
\* to 6 among them, and so is what a back_backward with BeginningOnce
\* resolves to when the text before the span is one of the test's haystacks.
C21_TestExpectations ==
    /\ \A t \in BeginningOnceBackwardTest :
          call.op = "back_backward" /\ call.loc = "BeginningOnce"
              /\ ViewOf(call) = t.haystack /\ call.pat = t.pattern
          => Resolved(call) = t.expected
    /\ FailingAssertions = {}


\* C22: front_forward and back_backward never move the opposite boundary
\* and never shrink the span (the new span contains the old one);
\* front_backward and back_forward under CursorOnly never move the opposite
\* boundary and never grow the span (the new span lies inside the old one).
C22_Frame ==
    /\ call.op = "front_forward" => start = call.pstart /\ end >= call.pend
    /\ call.op = "back_backward" => end = call.pend /\ start <= call.pstart
    /\ call.op = "front_backward" /\ call.strat = "CursorOnly" =>
          start = call.pstart /\ start <= end /\ end <= call.pend
    /\ call.op = "back_forward" /\ call.strat = "CursorOnly" =>
          end = call.pend /\ call.pstart <= start /\ start <= end

\* front_backward under CursorOnly has shrunk a span that began inside the
\* buffer and left part of it.
C22_Witness ==
    /\ call.op = "front_backward"
    /\ call.strat = "CursorOnly"
    /\ call.res = "Ok"
    /\ call.by > 0
    /\ 0 < start /\ start < end


\* The operations that move a boundary inward and take an InwardStrategy.
InwardOps == { "front_backward", "back_forward", "back_forward_by", "back_forward_or" }

\* The call recorded in `call` has handed its recorded offset to
\* move_front_backward / move_back_forward: a search has resolved, or the
\* assertion of back_forward_by has let the offset through.
HandedToMove(c) ==
    /\ c.by >= 0
    /\ c.op = "back_forward_by" => is_char_boundary(ViewOf(c), c.by)

\* The call recorded in `call` has fallen back to the end of its view.
FellBackToTheEnd(c) ==
    /\ c.op = "back_forward_or"
    /\ c.fb = "ToTheEnd"
    /\ find_directional_offset(ViewOf(c), c.pat, c.loc, "Forward") = None

\* C23: no sequence of public operations reaches the CursorOnly abort
\* ("Cannot move past the other end of the cursor"): under CursorOnly the
\* offset that front_backward, back_forward, back_forward_by or the ToTheEnd
\* fallback of back_forward_or hands to an inward move never exceeds the
\* width of the span, and the only aborts are the boundary assertions of
\* front_forward_by and back_forward_by.
C23_NoFailFast ==
    /\ ( call.op \in InwardOps /\ call.strat = "CursorOnly" =>
            /\ HandedToMove(call) => call.by <= call.pend - call.pstart
            /\ FellBackToTheEnd(call) =>
                  /\ Len(ViewOf(call)) <= call.pend - call.pstart
                  /\ call.res = "Ok" )
    /\ ( call.res = "Panic" =>
            /\ call.op \in { "front_forward_by", "back_forward_by" }
            /\ ~is_char_boundary(ViewOf(call), call.by) )

\* In a debug build, back_forward under CursorOnly has moved the back by
\* the whole width of a span that has text after it.
C23_Witness ==
    /\ debug_assertions
    /\ call.op = "back_forward"
    /\ call.strat = "CursorOnly"
    /\ call.res = "Ok"
    /\ call.by = call.pend - call.pstart
    /\ call.by > 0
    /\ call.pend < Len(data)


\* An offset moved on by n; not-found stays not-found.
Further(o, n) == IF IsSome(o) THEN Some(Unwrap(o) + n) ELSE None

\* What the call recorded in `call` would have resolved to with the anchor
\* loc instead of its own, on the same text, pattern and direction.
ResolvedWith(c, loc) ==
    find_directional_offset(ViewOf(c), c.pat, loc, DirectionOf(c))

\* C24: on every text and fixed-string pattern p the included and the
\* excluded anchor pick the same occurrence and differ by len(p):
\* FirstIncluded is FirstExcluded plus len(p) in both directions, EndOfLast
\* going forward is LastExcluded going forward plus len(p), and each pair
\* finds nothing on the same inputs.
C24_IncludedExcluded ==
    call.op \in Movements =>
        /\ call.loc = "FirstIncluded" =>
              Resolved(call) = Further(ResolvedWith(call, "FirstExcluded"), Len(call.pat))
        /\ call.loc = "EndOfLast" /\ DirectionOf(call) = "Forward" =>
              Resolved(call) = Further(ResolvedWith(call, "LastExcluded"), Len(call.pat))
        /\ call.loc = "FirstExcluded" =>
              Further(Resolved(call), Len(call.pat)) = ResolvedWith(call, "FirstIncluded")
        /\ call.loc = "LastExcluded" /\ DirectionOf(call) = "Forward" =>
              Further(Resolved(call), Len(call.pat)) = ResolvedWith(call, "EndOfLast")

\* A backward FirstIncluded movement has resolved on a pattern of more than
\* one byte whose rightmost occurrence does not end the text.
C24_Witness ==
    /\ call.op \in Movements
    /\ call.loc = "FirstIncluded"
    /\ DirectionOf(call) = "Backward"
    /\ call.res = "Ok"
    /\ Len(call.pat) > 1
    /\ call.by > Len(call.pat)


\* The recipe moves forward only: front_forward and back_forward calls.
ForwardOnly(recipe) ==
    \A i \in 1..Len(recipe) : recipe[i].op \in { "front_forward", "back_forward" }

\* C25: with a recipe of forward movements only, every item step yields
\* starts at or after the end of the item yielded before it, so items never
\* overlap and come in buffer order, and the span held when step was called
\* is part of no item: step leaves the span as it is, no pull moves the
\* front back (so it never falls behind the end of the held span or of an
\* item already yielded), and every item starts at or after the place the
\* front had when its pull began.
C25_ItemsInOrder ==
    /\ [][ f = None /\ f' # None => start' = start /\ end' = end ]_vars
    /\ [][ f # None /\ f' = f /\ ForwardOnly(Unwrap(f)) =>
              /\ end' >= end
              /\ call'.op = "next" /\ call'.res = "Ok" =>
                    /\ start' >= end
                    /\ call'.text = Some(Slice(data, start', end')) ]_vars

\* A forward-only recipe has yielded a non-empty item from a cursor that
\* held a non-empty span when the pull began.
C25_Witness ==
    /\ f # None
    /\ ForwardOnly(Unwrap(f))
    /\ call.op = "next"
    /\ call.res = "Ok"
    /\ call.pstart < call.pend
    /\ start < end


RECURSIVE Progresses(_, _, _, _)
\* Over the next n pulls of cur.step(recipe), up to the first that yields
\* nothing, every pull leaves the front strictly to the right of where it
\* was before the pull.
Progresses(cur, recipe, dbg, n) ==
    \/ n = 0
    \/ \E o \in { step_next(cur, recipe, dbg) } :
          \/ o.res # "Ok"
          \/ /\ o.cur.end > cur.end
             /\ Progresses(o.cur, recipe, dbg, n - 1)

RECURSIVE EndsAfterAtMost(_, _, _, _)
\* The pulls of cur.step(recipe) yield at most n items before the first
\* pull that yields nothing.
EndsAfterAtMost(cur, recipe, dbg, n) ==
    \E o \in { step_next(cur, recipe, dbg) } :
        \/ o.res # "Ok"
        \/ /\ n > 0
           /\ EndsAfterAtMost(o.cur, recipe, dbg, n - 1)

\* The recipe is made of BeginningMany movements only.
OnlyBeginningMany(recipe) ==
    \A i \in 1..Len(recipe) : recipe[i].loc = "BeginningMany"

\* A pull is about to run in a sequence whose pulls, from here to its end,
\* all leave the front strictly to the right of where they found it.
AboutToPullWithProgress ==
    /\ CanPull
    /\ Progresses(self, Unwrap(f), debug_assertions, Len(data) + 1)

\* C26: when every successful run of the recipe leaves the front strictly
\* to the right of where it was before the pull, the step sequence reaches
\* its end (a pull returns None, or aborts) after yielding at most
\* len(buffer) items; without that condition it need not end: a recipe of
\* BeginningMany movements only succeeds on every pull and never returns
\* None.
C26_StepEnds ==
    /\ AboutToPullWithProgress ~> (ended \/ call.res = "Panic")
    /\ [] ( AboutToPullWithProgress =>
               EndsAfterAtMost(self, Unwrap(f), debug_assertions, Len(data)) )
    /\ [] ( f # None /\ OnlyBeginningMany(Unwrap(f)) =>
               /\ ~ended
               /\ call.op = "next" => call.res = "Ok" )

\* A recipe of BeginningMany movements only has yielded an empty item and
\* left the front where it was, at the end of the buffer: the next pull
\* starts from the same cursor.
C26_Witness ==
    /\ f # None
    /\ OnlyBeginningMany(Unwrap(f))
    /\ call.op = "next"
    /\ call.res = "Ok"
    /\ call.pstart = call.pend
    /\ start = call.pend /\ end = call.pend
    /\ end = Len(data)

====
